---- MODULE Spec2Model ----
(***************************************************************************)
(* Model of plot_results.py: one run of the command-line script, from the  *)
(* argument check in __main__ through plot_histogram to process exit.      *)
(*                                                                         *)
(* Affinities and thresholds are kept in tenths of kcal/mol (-8.0 is -80); *)
(* ratios (mean, hit percentage) are kept as exact fractions num/den.      *)
(* Paths are sequences of one-character strings.  Affinity cells are       *)
(* finite numbers and Mode cells are integers.                             *)
(***************************************************************************)
EXTENDS Integers, Sequences, FiniteSets, TLC

VARIABLES argv, csv, dirs,
          pc, output_file, threshold, df, best_poses, stats,
          bar_output_file, best_poses_sorted, colors,
          files, out, exit_status

vars == <<argv, csv, dirs, pc, output_file, threshold, df, best_poses, stats,
          bar_output_file, best_poses_sorted, colors, files, out, exit_status>>

(* ------------------------------ bounds -------------------------------- *)
MaxRows == 3
MaxPathLen == 3

(* --------------------------- input domains ---------------------------- *)
ColLigand == "Ligand_ID"
ColMode == "Mode"
ColAffinity == "Affinity_(kcal/mol)"
AllColumns == {ColLigand, ColMode, ColAffinity}

LigandIDs == {"L1", "L2"}
Modes == {1, 2}
Affinities == {-92, -80, -75}
ThresholdArgs == {"-9.2", "-8.0", "-7.5", "abc"}
Chars == {"a", ".", "/"}

Row(l, m, a) ==
    [c \in AllColumns |-> IF c = ColLigand THEN l ELSE IF c = ColMode THEN m ELSE a]

Rows == {Row(l, m, a) : l \in LigandIDs, m \in Modes, a \in Affinities}

Tables(n) == UNION {[1..k -> Rows] : k \in 0..n}

Project(rows, cols) == [i \in 1..Len(rows) |-> [c \in cols |-> rows[i][c]]]

Paths(n) == UNION {[1..k -> Chars] : k \in 1..n}

(* ------------------------------ helpers ------------------------------- *)
RECURSIVE SeqSum(_)
SeqSum(s) == IF s = <<>> THEN 0 ELSE s[1] + SeqSum(Tail(s))

LastIndexOf(s, ch) ==
    LET I == {i \in 1..Len(s) : s[i] = ch}
    IN IF I = {} THEN 0 ELSE CHOOSE i \in I : \A j \in I : j <= i

DirName(path) == SubSeq(path, 1, LastIndexOf(path, "/"))

BaseName(path) == SubSeq(path, LastIndexOf(path, "/") + 1, Len(path))

(* the file system lets savefig create a file in an existing directory *)
CanSave(path) == DirName(path) \in dirs /\ BaseName(path) # <<>>

(* ---------------------- __main__: argument parsing -------------------- *)
DefaultThreshold == -80

IsFloatLiteral(s) == s \in {"-9.2", "-8.0", "-7.5"}

float(s) == CASE s = "-9.2" -> -92
              [] s = "-8.0" -> -80
              [] s = "-7.5" -> -75

ParseThresholdIgnoresArg(s) == DefaultThreshold

ParseThreshold(s) == IF IsFloatLiteral(s) THEN float(s) ELSE DefaultThreshold

(* ------------------- plot_histogram: pure computations ---------------- *)
BestPosesNoFilter(rows) == rows

BestPoses(rows) == SelectSeq(rows, LAMBDA r : r[ColMode] = 1)

BestPosesEmptyNeverTrue(bp) == FALSE

BestPosesEmpty(bp) == Len(bp) = 0

Scores(bp) == [i \in 1..Len(bp) |-> bp[i][ColAffinity]]

MinScoreAsMax(scores) ==
    CHOOSE x \in {scores[i] : i \in 1..Len(scores)} :
        \A i \in 1..Len(scores) : x >= scores[i]

MinScore(scores) ==
    CHOOSE x \in {scores[i] : i \in 1..Len(scores)} :
        \A i \in 1..Len(scores) : x <= scores[i]

MaxScore(scores) ==
    CHOOSE x \in {scores[i] : i \in 1..Len(scores)} :
        \A i \in 1..Len(scores) : x >= scores[i]

HitsStrict(scores, th) == SelectSeq(scores, LAMBDA x : x < th)

Hits(scores, th) == SelectSeq(scores, LAMBDA x : x <= th)

NoStats == [computed |-> FALSE, count |-> 0, min_score |-> 0, max_score |-> 0,
            mean_score |-> [num |-> 0, den |-> 1], hit_count |-> 0,
            hit_percentage |-> [num |-> 0, den |-> 1]]

ComputeStats(scores, th) ==
    [computed |-> TRUE,
     count |-> Len(scores),
     min_score |-> MinScore(scores),
     max_score |-> MaxScore(scores),
     mean_score |-> [num |-> SeqSum(scores), den |-> Len(scores)],
     hit_count |-> Len(Hits(scores, th)),
     hit_percentage |-> [num |-> Len(Hits(scores, th)) * 100, den |-> Len(scores)]]

(* rsplit('.', 1) on the whole path string *)
BarOutputFile(path) ==
    IF \E i \in 1..Len(path) : path[i] = "."
    THEN LET k == LastIndexOf(path, ".")
             base == SubSeq(path, 1, k - 1)
             ext == SubSeq(path, k + 1, Len(path))
         IN base \o <<"_", "b", "a", "r", "c", "h", "a", "r", "t">> \o <<".">> \o ext
    ELSE path \o <<"_", "b", "a", "r", "c", "h", "a", "r", "t">>

Reorder(bp, p) == [i \in 1..Len(bp) |-> bp[p[i]]]

sort_values_descending(bp) ==
    {Reorder(bp, p) : p \in {q \in Permutations(1..Len(bp)) :
        \A i \in 1..(Len(bp) - 1) : bp[q[i]][ColAffinity] >= bp[q[i + 1]][ColAffinity]}}

(* ascending by Affinity; the order of equal keys is not defined *)
sort_values(bp) ==
    {Reorder(bp, p) : p \in {q \in Permutations(1..Len(bp)) :
        \A i \in 1..(Len(bp) - 1) : bp[q[i]][ColAffinity] <= bp[q[i + 1]][ColAffinity]}}

highlight_color == "#e74c3c"
bar_color == "#3498db"

ColorsStrict(sorted, th) ==
    [i \in 1..Len(sorted) |->
        IF sorted[i][ColAffinity] < th THEN highlight_color ELSE bar_color]

Colors(sorted, th) ==
    [i \in 1..Len(sorted) |->
        IF sorted[i][ColAffinity] <= th THEN highlight_color ELSE bar_color]

(* ------------------------------- Init --------------------------------- *)
Script == "plot_results.py"
CsvPath == "docking_results.csv"
DefaultImage == <<"a", ".", "a">>
Cwd == <<>>

TableFile(cols, rows) == [kind |-> "table", columns |-> cols, rows |-> Project(rows, cols)]
MissingFile == [kind |-> "missing", columns |-> {}, rows |-> <<>>]
UnreadableFile == [kind |-> "unreadable", columns |-> {}, rows |-> <<>>]

SmallTable == <<Row("L1", 1, -92), Row("L2", 1, -75)>>

(* well-formed tables of every shape, each threshold argument *)
InitTables ==
    /\ \E t \in ThresholdArgs : argv = <<Script, CsvPath, DefaultImage, t>>
    /\ \E rows \in Tables(MaxRows) : csv = TableFile(AllColumns, rows)
    /\ dirs = {Cwd}

(* every output path, with its directory present or absent *)
InitPaths ==
    /\ \E p \in Paths(MaxPathLen) :
          /\ argv = <<Script, CsvPath, p, "-8.0">>
          /\ dirs \in {{Cwd}, {Cwd, DirName(p)}}
    /\ csv = TableFile(AllColumns, SmallTable)

(* short or long argument lists, bad files, tables with columns missing *)
InitErrors ==
    /\ \E t \in ThresholdArgs :
          argv \in {<<Script>>, <<Script, CsvPath>>, <<Script, CsvPath, DefaultImage>>,
                    <<Script, CsvPath, DefaultImage, t>>,
                    <<Script, CsvPath, DefaultImage, t, "extra">>}
    /\ \/ csv \in {MissingFile, UnreadableFile}
       \/ \E cols \in SUBSET AllColumns : \E rows \in Tables(2) :
             csv = TableFile(cols, rows)
    /\ dirs = {Cwd}

Init ==
    /\ InitTables \/ InitPaths \/ InitErrors
    /\ pc = "main"
    /\ output_file = <<>>
    /\ threshold = 0
    /\ df = [columns |-> {}, rows |-> <<>>]
    /\ best_poses = <<>>
    /\ stats = NoStats
    /\ bar_output_file = <<>>
    /\ best_poses_sorted = <<>>
    /\ colors = <<>>
    /\ files = <<>>
    /\ out = <<>>
    /\ exit_status = -1

(* ------------------------------ actions ------------------------------- *)
inputs == <<argv, csv, dirs>>

(* the except clause: print the error and return *)
Except ==
    /\ out' = Append(out, "error")
    /\ pc' = "returned"

MainUsage ==
    /\ pc = "main"
    /\ Len(argv) < 4
    /\ out' = Append(out, "usage")
    /\ exit_status' = 1
    /\ pc' = "exited"
    /\ UNCHANGED <<inputs, output_file, threshold, df, best_poses, stats,
                   bar_output_file, best_poses_sorted, colors, files>>

MainCall ==
    /\ pc = "main"
    /\ Len(argv) >= 4
    /\ output_file' = argv[3]
    /\ threshold' = ParseThreshold(argv[4])
    /\ pc' = "read_csv"
    /\ UNCHANGED <<inputs, df, best_poses, stats, bar_output_file,
                   best_poses_sorted, colors, files, out, exit_status>>

ReadCsvError ==
    /\ pc = "read_csv"
    /\ csv.kind # "table"
    /\ Except
    /\ UNCHANGED <<inputs, output_file, threshold, df, best_poses, stats,
                   bar_output_file, best_poses_sorted, colors, files, exit_status>>

ReadCsvEmpty ==
    /\ pc = "read_csv"
    /\ csv.kind = "table"
    /\ Len(csv.rows) = 0
    /\ df' = [columns |-> csv.columns, rows |-> csv.rows]
    /\ out' = Append(out, "warning_no_data")
    /\ pc' = "returned"
    /\ UNCHANGED <<inputs, output_file, threshold, best_poses, stats,
                   bar_output_file, best_poses_sorted, colors, files, exit_status>>

ReadCsv ==
    /\ pc = "read_csv"
    /\ csv.kind = "table"
    /\ Len(csv.rows) # 0
    /\ df' = [columns |-> csv.columns, rows |-> csv.rows]
    /\ pc' = "filter"
    /\ UNCHANGED <<inputs, output_file, threshold, best_poses, stats,
                   bar_output_file, best_poses_sorted, colors, files, out, exit_status>>

FilterKeyError ==
    /\ pc = "filter"
    /\ ColMode \notin df.columns
    /\ Except
    /\ UNCHANGED <<inputs, output_file, threshold, df, best_poses, stats,
                   bar_output_file, best_poses_sorted, colors, files, exit_status>>

FilterEmpty ==
    /\ pc = "filter"
    /\ ColMode \in df.columns
    /\ BestPosesEmpty(BestPoses(df.rows))
    /\ best_poses' = BestPoses(df.rows)
    /\ out' = Append(out, "warning_no_mode1")
    /\ pc' = "returned"
    /\ UNCHANGED <<inputs, output_file, threshold, df, stats,
                   bar_output_file, best_poses_sorted, colors, files, exit_status>>

ScoresKeyError ==
    /\ pc = "filter"
    /\ ColMode \in df.columns
    /\ ~BestPosesEmpty(BestPoses(df.rows))
    /\ ColAffinity \notin df.columns
    /\ best_poses' = BestPoses(df.rows)
    /\ Except
    /\ UNCHANGED <<inputs, output_file, threshold, df, stats,
                   bar_output_file, best_poses_sorted, colors, files, exit_status>>

Filter ==
    /\ pc = "filter"
    /\ ColMode \in df.columns
    /\ ~BestPosesEmpty(BestPoses(df.rows))
    /\ ColAffinity \in df.columns
    /\ best_poses' = BestPoses(df.rows)
    /\ pc' = "histogram"
    /\ UNCHANGED <<inputs, output_file, threshold, df, stats,
                   bar_output_file, best_poses_sorted, colors, files, out, exit_status>>

(* statistics, then the histogram is saved *)
Histogram ==
    /\ pc = "histogram"
    /\ Len(best_poses) # 0
    /\ stats' = ComputeStats(Scores(best_poses), threshold)
    /\ CanSave(output_file)
    /\ files' = Append(files, output_file)
    /\ out' = Append(out, "hist_saved")
    /\ pc' = "barchart"
    /\ UNCHANGED <<inputs, output_file, threshold, df, best_poses,
                   bar_output_file, best_poses_sorted, colors, exit_status>>

(* hit_count / count raises when count = 0; savefig raises when it cannot write *)
HistogramError ==
    /\ pc = "histogram"
    /\ IF Len(best_poses) = 0 THEN TRUE ELSE ~CanSave(output_file)
    /\ stats' = IF Len(best_poses) = 0 THEN stats
                 ELSE ComputeStats(Scores(best_poses), threshold)
    /\ Except
    /\ UNCHANGED <<inputs, output_file, threshold, df, best_poses,
                   bar_output_file, best_poses_sorted, colors, files, exit_status>>

BarChart ==
    /\ pc = "barchart"
    /\ bar_output_file' = BarOutputFile(output_file)
    /\ \E s \in sort_values(best_poses) : best_poses_sorted' = s
    /\ ColLigand \in df.columns
    /\ colors' = Colors(best_poses_sorted', threshold)
    /\ CanSave(bar_output_file')
    /\ files' = Append(files, bar_output_file')
    /\ out' = Append(out, "bar_saved")
    /\ pc' = "returned"
    /\ UNCHANGED <<inputs, output_file, threshold, df, best_poses, stats, exit_status>>

BarChartKeyError ==
    /\ pc = "barchart"
    /\ bar_output_file' = BarOutputFile(output_file)
    /\ \E s \in sort_values(best_poses) : best_poses_sorted' = s
    /\ ColLigand \notin df.columns
    /\ Except
    /\ UNCHANGED <<inputs, output_file, threshold, df, best_poses, stats,
                   colors, files, exit_status>>

BarChartSaveError ==
    /\ pc = "barchart"
    /\ bar_output_file' = BarOutputFile(output_file)
    /\ \E s \in sort_values(best_poses) : best_poses_sorted' = s
    /\ ColLigand \in df.columns
    /\ colors' = Colors(best_poses_sorted', threshold)
    /\ ~CanSave(bar_output_file')
    /\ Except
    /\ UNCHANGED <<inputs, output_file, threshold, df, best_poses, stats,
                   files, exit_status>>

(* plot_histogram returned; the interpreter falls off the end of the script *)
Exit ==
    /\ pc = "returned"
    /\ exit_status' = 0
    /\ pc' = "exited"
    /\ UNCHANGED <<inputs, output_file, threshold, df, best_poses, stats,
                   bar_output_file, best_poses_sorted, colors, files, out>>

Next ==
    \/ MainUsage
    \/ MainCall
    \/ ReadCsvError
    \/ ReadCsvEmpty
    \/ ReadCsv
    \/ FilterKeyError
    \/ FilterEmpty
    \/ ScoresKeyError
    \/ Filter
    \/ Histogram
    \/ HistogramError
    \/ BarChart
    \/ BarChartKeyError
    \/ BarChartSaveError
    \/ Exit

Spec == Init /\ [][Next]_vars

(* ------------------- definitions used by the properties --------------- *)
Called == Len(argv) >= 4

Finished == pc = "exited"

Mode1Idx == {i \in 1..Len(csv.rows) : csv.rows[i][ColMode] = 1}

NonMode1Idx == {i \in 1..Len(csv.rows) : csv.rows[i][ColMode] # 1}

HitIdx == {i \in Mode1Idx : csv.rows[i][ColAffinity] <= threshold}

RemoveRows(rows, S) ==
    LET F[k \in 0..Len(rows)] ==
            IF k = 0 THEN <<>>
            ELSE IF k \in S THEN F[k - 1] ELSE Append(F[k - 1], rows[k])
    IN F[Len(rows)]

Occurrences(s, r) == Cardinality({i \in 1..Len(s) : s[i] = r})

IsPermutationOf(s, t) ==
    /\ Len(s) = Len(t)
    /\ \A i \in 1..Len(t) : Occurrences(s, t[i]) = Occurrences(t, t[i])

IsAscending(s) ==
    \A i \in 1..(Len(s) - 1) : s[i][ColAffinity] <= s[i + 1][ColAffinity]

Extension(path) ==
    LET name == BaseName(path)
        k == LastIndexOf(name, ".")
    IN IF k = 0 THEN <<"no extension">> ELSE SubSeq(name, k, Len(name))

BarchartSuffix == <<"_", "b", "a", "r", "c", "h", "a", "r", "t">>

ExpectedBarPath(path) ==
    LET name == BaseName(path)
        k == LastIndexOf(name, ".")
    IN IF k = 0 THEN path \o BarchartSuffix
       ELSE DirName(path) \o SubSeq(name, 1, k - 1) \o BarchartSuffix
            \o SubSeq(name, k, Len(name))

NoMode1Input ==
    /\ csv.kind = "table"
    /\ \/ Len(csv.rows) = 0
       \/ ColMode \in csv.columns /\ Mode1Idx = {}

FatalInput ==
    \/ csv.kind \in {"missing", "unreadable"}
    \/ /\ csv.kind = "table"
       /\ Len(csv.rows) # 0
       /\ \/ ColMode \notin csv.columns
          \/ ColMode \in csv.columns /\ Mode1Idx # {} /\ ColAffinity \notin csv.columns

(* ------------------------------ properties ---------------------------- *)

\* C1: once the statistics are computed, hit_count is the number of Mode = 1
\* rows of the input whose Affinity is <= threshold (equality counts as a
\* hit), and hit_percentage is exactly 100 * hit_count / count.
C1_HitStatistics ==
    stats.computed =>
        /\ stats.hit_count = Cardinality(HitIdx)
        /\ stats.hit_percentage.den # 0
        /\ stats.hit_percentage.num * Cardinality(Mode1Idx)
             = 100 * Cardinality(HitIdx) * stats.hit_percentage.den

C1_Witness ==
    /\ Finished
    /\ stats.computed
    /\ \E i \in Mode1Idx : csv.rows[i][ColAffinity] = threshold
    /\ \E i \in Mode1Idx : csv.rows[i][ColAffinity] > threshold
    /\ stats.hit_count >= 1

\* C2: when plot_histogram is called on a table with no Mode = 1 row, it
\* never computes statistics, writes no file and prints no error; it ends
\* with exactly one warning and the process exits with status 0.
C2_NoData ==
    (Called /\ NoMode1Input) =>
        /\ ~stats.computed
        /\ files = <<>>
        /\ pc \notin {"histogram", "barchart"}
        /\ pc \in {"returned", "exited"} =>
              out \in {<<"warning_no_data">>, <<"warning_no_mode1">>}
        /\ Finished => exit_status = 0

C2_Witness ==
    /\ Called /\ NoMode1Input
    /\ Len(csv.rows) > 0
    /\ Finished
    /\ out = <<"warning_no_mode1">>

\* C3: a run that hits a fatal input error (missing file, unreadable table,
\* missing Mode or Affinity column) reports it and exits with a non-zero
\* status.
C3_FatalExitsNonZero ==
    (Called /\ FatalInput /\ Finished) =>
        /\ "error" \in {out[i] : i \in 1..Len(out)}
        /\ exit_status # 0

\* C4: count is the number of Mode = 1 rows, and deleting any set of rows
\* whose Mode is not 1 from the input leaves every statistic and the possible
\* bar-chart orderings the same.
C4_OnlyMode1Contributes ==
    stats.computed =>
        /\ stats.count = Cardinality(Mode1Idx)
        /\ \A S \in SUBSET NonMode1Idx :
              LET T == RemoveRows(csv.rows, S)
              IN /\ ComputeStats(Scores(BestPoses(T)), threshold) = stats
                 /\ best_poses_sorted # <<>> =>
                       best_poses_sorted \in sort_values(BestPoses(T))

C4_Witness ==
    /\ Finished
    /\ stats.computed
    /\ NonMode1Idx # {}
    /\ Cardinality(Mode1Idx) >= 2
    /\ best_poses_sorted # <<>>

\* C5: once the statistics are computed, min_score is the Affinity of some
\* Mode = 1 row and is <= the Affinity of every Mode = 1 row.
C5_BestIsMinimum ==
    stats.computed =>
        /\ \E i \in Mode1Idx : csv.rows[i][ColAffinity] = stats.min_score
        /\ \A i \in Mode1Idx : stats.min_score <= csv.rows[i][ColAffinity]

C5_Witness ==
    /\ Finished
    /\ stats.computed
    /\ \E i, j \in Mode1Idx : csv.rows[i][ColAffinity] < csv.rows[j][ColAffinity]
    /\ csv.rows[CHOOSE i \in Mode1Idx : \A j \in Mode1Idx : i <= j][ColAffinity]
          # stats.min_score

\* C6 as stated: a run given only the table path and the image path is not
\* rejected and uses the threshold -8.0; a numeric threshold is used as given.
C6_ThresholdOptional ==
    /\ (Len(argv) = 3 /\ Finished) =>
          /\ "usage" \notin {out[i] : i \in 1..Len(out)}
          /\ threshold = -80
          /\ exit_status = 0
    /\ (Len(argv) >= 4 /\ pc # "main") =>
          /\ argv[4] = "-9.2" => threshold = -92
          /\ argv[4] = "-8.0" => threshold = -80
          /\ argv[4] = "-7.5" => threshold = -75

\* C6 amended: with fewer than three arguments the run is rejected (usage
\* message, exit status 1, nothing read or written); with a third argument
\* the threshold is that number, or -8.0 when it is not a number.
C6_ThresholdRequired ==
    /\ (Len(argv) < 4 /\ pc # "main") =>
          /\ Finished
          /\ out = <<"usage">>
          /\ exit_status = 1
          /\ files = <<>>
          /\ ~stats.computed
    /\ (Len(argv) >= 4 /\ pc # "main") =>
          /\ "usage" \notin {out[i] : i \in 1..Len(out)}
          /\ argv[4] = "-9.2" => threshold = -92
          /\ argv[4] = "-8.0" => threshold = -80
          /\ argv[4] = "-7.5" => threshold = -75
          /\ argv[4] = "abc" => threshold = -80

C6_Witness ==
    /\ Len(argv) = 3
    /\ Finished
    /\ out = <<"usage">>
    /\ exit_status = 1

\* C7: once the bar colours are computed there is one bar per Mode = 1 row,
\* a bar has the highlight colour iff its Affinity is <= threshold, and the
\* number of highlighted bars equals hit_count.
C7_BarColours ==
    colors # <<>> =>
        /\ Len(colors) = Cardinality(Mode1Idx)
        /\ Len(colors) = Len(best_poses_sorted)
        /\ \A i \in 1..Len(colors) :
              /\ colors[i] \in {highlight_color, bar_color}
              /\ colors[i] = highlight_color
                    <=> best_poses_sorted[i][ColAffinity] <= threshold
        /\ Cardinality({i \in 1..Len(colors) : colors[i] = highlight_color})
              = stats.hit_count

C7_Witness ==
    /\ Finished
    /\ colors # <<>>
    /\ \E i \in 1..Len(colors) : best_poses_sorted[i][ColAffinity] = threshold
    /\ \E i \in 1..Len(colors) : colors[i] = bar_color

\* C8: the bar-chart step produces a permutation of the Mode = 1 rows in
\* non-decreasing Affinity order and leaves the unsorted Mode = 1 rows and
\* the statistics as they were.
C8_SortedPermutation ==
    [][pc = "barchart" =>
          /\ best_poses' = best_poses
          /\ stats' = stats
          /\ best_poses = RemoveRows(csv.rows, NonMode1Idx)
          /\ IsPermutationOf(best_poses_sorted', best_poses)
          /\ IsAscending(best_poses_sorted')]_vars

C8_Witness ==
    /\ Finished
    /\ Len(best_poses_sorted) >= 3
    /\ best_poses_sorted # best_poses
    /\ best_poses_sorted[1][ColAffinity] = best_poses_sorted[2][ColAffinity]
    /\ best_poses_sorted[1][ColLigand] # best_poses_sorted[2][ColLigand]
    /\ "bar_saved" \in {out[i] : i \in 1..Len(out)}

\* C9: at the end of a run either both images were written, histogram first,
\* or none was; the bar chart is never written without the histogram.
C9_AllOrNothing ==
    /\ Finished => \/ files = <<>>
                   \/ files = <<output_file, bar_output_file>>
    /\ \A i \in 1..Len(files) :
          files[i] = bar_output_file => (i = 2 /\ files[1] = output_file)

\* C10: the bar-chart path is the output path with '_barchart' inserted
\* before the extension of its file name (appended when the file name has no
\* extension), in the same directory, with the same extension, and different
\* from the output path.
C10_BarPath ==
    bar_output_file # <<>> =>
        /\ bar_output_file = ExpectedBarPath(output_file)
        /\ DirName(bar_output_file) = DirName(output_file)
        /\ Extension(bar_output_file) = Extension(output_file)
        /\ bar_output_file # output_file
====
